---- MODULE Spec2Model ----
(***************************************************************************)
(* Model of get_device_vulnerabilities.py: one run of main(), from the     *)
(* credential check through the paginated fetch/stream loop, the optional  *)
(* pretty-print step and the process exit.                                 *)
(*                                                                         *)
(* The environment (the server's responses, network failures, I/O failures *)
(* of the reformat step, the process environment variables) is chosen      *)
(* nondeterministically.  An action is one request of fetch_page together  *)
(* with everything the program does until it next waits on the             *)
(* environment.                                                            *)
(***************************************************************************)
EXTENDS Integers, Sequences, FiniteSets, TLC

(* ------------------------------ bounds -------------------------------- *)
\* pages the server serves before it must end the pagination
MaxPages == 3
\* items on one page
MaxPageItems == 2
\* responses of one fetch_page call that neither return, raise nor count as
\* an attempt (see RespOther)
MaxSpin == 1

(* ------------------------- program constants -------------------------- *)
\* A string is a sequence of symbols (words or characters); "" is <<>>.
BASE_URL == <<"https://api.xdr.trendmicro.com/v3.0/asrm/vulnerableDevices">>
PAGE_SIZE == 200
MAX_RETRIES == 5
\* 1.5 as the fraction <<numerator, denominator>>
BACKOFF_BASE == <<3, 2>>
RETRYABLE == {429, 500, 502, 503, 504}
DEFAULT_TOKEN == <<"<API key here>">>
PLACEHOLDER == <<"<PUT_YOUR_BEARER_TOKEN_HERE>">>

\* Python's None where a string is expected
None == <<"<None>">>

(* --------------------------- environment ------------------------------ *)
\* Values of TM_API_TOKEN; " " is a whitespace symbol.  os.getenv gives
\* None for an unset variable: [set |-> FALSE].
TokenEnvs ==
    { [set |-> FALSE, val |-> <<>>],
      [set |-> TRUE,  val |-> <<>>],
      [set |-> TRUE,  val |-> PLACEHOLDER],
      [set |-> TRUE,  val |-> <<" ">> \o PLACEHOLDER \o <<" ">>],
      [set |-> TRUE,  val |-> <<"secret-token">>] }

\* statuses the server answers with: success, statuses below 400 other
\* than 200, client errors, and retryable ones
Statuses == {200, 204, 304, 404, 429, 500, 503}

\* values of LOG_EVERY = int(os.getenv("LOG_EVERY", "5")): the default and
\* zero, and the cadences that fall inside a run of MaxPages pages
DefaultLogEvery == {0, 5}
LogEveryValues == {0, 1, 2}

\* credentials of the runs whose log lines are examined: one that is
\* rejected and one that is accepted
ReportTokenEnvs ==
    { [set |-> TRUE, val |-> <<" ">> \o PLACEHOLDER \o <<" ">>],
      [set |-> TRUE, val |-> <<"secret-token">>] }

\* totalCount values the server may put on a page, as the text the summary
\* line formats them to
TotalCounts == { <<"7">> }

\* next-page links the server hands out
Links == { <<"https://api/next/1">>, <<"https://api/next/2">> }

\* values of a Retry-After header, as character sequences
RetryAfterValues ==
    { <<>>, <<"2">>, <<"-", "1">>, <<"F", "r", "i">> }

\* response headers: a dict with or without the Retry-After key
HeaderDicts ==
    { [k \in {} |-> None] } \cup
    { [k \in {"Retry-After"} |-> v] : v \in RetryAfterValues }

(* --------------------------- Python helpers --------------------------- *)
\* dict.get(key, default)
Get(d, key, default) == IF key \in DOMAIN d THEN d[key] ELSE default

\* truthiness of a string-or-None value
Truthy(v) == v # None /\ v # <<>>

RECURSIVE LStrip(_)
LStrip(s) == IF s # <<>> /\ Head(s) = " " THEN LStrip(Tail(s)) ELSE s

RECURSIVE RStrip(_)
RStrip(s) ==
    IF s # <<>> /\ s[Len(s)] = " " THEN RStrip(SubSeq(s, 1, Len(s) - 1)) ELSE s

\* str.strip()
Strip(s) == RStrip(LStrip(s))

\* fractions <<numerator, denominator>>
RECURSIVE IntPow(_, _)
IntPow(b, k) == IF k = 0 THEN 1 ELSE b * IntPow(b, k - 1)

\* BACKOFF_BASE ** attempt
Backoff(attempt) == <<IntPow(BACKOFF_BASE[1], attempt), IntPow(BACKOFF_BASE[2], attempt)>>

DigitChars == {"0", "1", "2", "3", "4", "5", "6", "7", "8", "9"}

DigitVal(c) ==
    CASE c = "0" -> 0 [] c = "1" -> 1 [] c = "2" -> 2 [] c = "3" -> 3
      [] c = "4" -> 4 [] c = "5" -> 5 [] c = "6" -> 6 [] c = "7" -> 7
      [] c = "8" -> 8 [] c = "9" -> 9

IsDigits(s) == s # <<>> /\ \A i \in 1..Len(s) : s[i] \in DigitChars

RECURSIVE DigitsValue(_, _)
DigitsValue(s, acc) ==
    IF s = <<>> THEN acc ELSE DigitsValue(Tail(s), 10 * acc + DigitVal(Head(s)))

\* float(s) on decimal integer literals with an optional sign; anything
\* else raises ValueError (ok = FALSE)
Float(s) ==
    IF IsDigits(s) THEN [ok |-> TRUE, val |-> <<DigitsValue(s, 0), 1>>]
    ELSE IF s # <<>> /\ Head(s) = "-" /\ IsDigits(Tail(s))
         THEN [ok |-> TRUE, val |-> <<0 - DigitsValue(Tail(s), 0), 1>>]
    ELSE IF s # <<>> /\ Head(s) = "+" /\ IsDigits(Tail(s))
         THEN [ok |-> TRUE, val |-> <<DigitsValue(Tail(s), 0), 1>>]
    ELSE [ok |-> FALSE, val |-> <<0, 1>>]

\* the sleep duration fetch_page computes after a retryable status
SleepSecs(headers, attempt) ==
    LET retry_after == Get(headers, "Retry-After", None)
    IN  IF Truthy(retry_after)
        THEN IF Float(retry_after).ok THEN Float(retry_after).val
             ELSE Backoff(attempt)
        ELSE Backoff(attempt)

\* CeilingExceeded one failure late
CeilingExceeded_OneLate(attempt) == attempt > MAX_RETRIES + 1

\* attempt > MAX_RETRIES: the retries of this call are used up
CeilingExceeded(attempt) == attempt > MAX_RETRIES

\* time.sleep(s) raises ValueError for a negative duration
SleepRaises(s) == s[1] < 0

\* requests.Response.raise_for_status(): raises HTTPError for 4xx and 5xx
RaisesForStatus(status) == 400 <= status /\ status < 600

(* ----------------------------- the file ------------------------------- *)
\* The file is a sequence of chunks, one per write.  An item is the pair
\* <<page, index>> of its place in the server's data.
NoItem == <<0, 0>>
Chunk(kind) == [kind |-> kind, item |-> NoItem]

\* dumps_bytes(item): the item's compact serialisation
dumps_bytes(item) == [kind |-> "object", item |-> item]

\* json.dump's serialisation of an item under indent=2
dumps_indented(item) == [kind |-> "object-indented", item |-> item]

\* WriteItems with the item written only under "if not first_item"
RECURSIVE WriteItems_ItemUnderIf(_, _)
WriteItems_ItemUnderIf(w, page_items) ==
    IF page_items = <<>> THEN w
    ELSE LET out == IF ~w.first_item
                    THEN <<Chunk(",\n"), dumps_bytes(Head(page_items))>>
                    ELSE <<>>
         IN  WriteItems_ItemUnderIf([f |-> w.f \o out, first_item |-> FALSE],
                                    Tail(page_items))

\* WriteItems with first_item reset for every page
RECURSIVE WriteItems_FlagPerPage(_, _)
WriteItems_FlagPerPage(w, page_items) ==
    IF page_items = <<>> THEN w
    ELSE LET rest == WriteItems_FlagPerPage(
                        [f |-> <<>>, first_item |-> TRUE], Tail(page_items))
         IN  [f |-> w.f \o <<dumps_bytes(Head(page_items))>>
                        \o (IF rest.f = <<>> THEN <<>> ELSE <<Chunk(",\n")>>)
                        \o rest.f,
              first_item |-> FALSE]

\* the for loop of stream_all over one page's items, on the pair
\* [f, first_item]
RECURSIVE WriteItems(_, _)
WriteItems(w, page_items) ==
    IF page_items = <<>> THEN w
    ELSE LET sep == IF ~w.first_item THEN <<Chunk(",\n")>> ELSE <<>>
         IN  WriteItems([f |-> w.f \o sep \o <<dumps_bytes(Head(page_items))>>,
                         first_item |-> FALSE],
                        Tail(page_items))

\* JSON symbols of one chunk, whitespace dropped
Symbols(c) ==
    CASE c.kind \in {"[\n", "[\n  "} -> <<"[">>
      [] c.kind \in {",\n", ",\n  "} -> <<",">>
      [] c.kind \in {"\n]\n", "\n]"} -> <<"]">>
      [] c.kind = "[]" -> <<"[", "]">>
      [] c.kind \in {"object", "object-indented"} -> <<"object">>

RECURSIVE Lex(_)
Lex(text) ==
    IF text = <<>> THEN <<>>
    ELSE LET c == Head(text)
             syms == Symbols(c)
         IN  [i \in 1..Len(syms) |-> [sym |-> syms[i], item |-> c.item]] \o Lex(Tail(text))

\* json.load of the file: ok with the decoded top-level array, or a
\* JSONDecodeError (ok = FALSE)
JsonLoad(text) ==
    LET s == Lex(text)
        n == Len(s)
        inner == IF n >= 2 THEN SubSeq(s, 2, n - 1) ELSE <<>>
        m == Len(inner)
        wellFormed ==
            /\ n >= 2
            /\ s[1].sym = "["
            /\ s[n].sym = "]"
            /\ \/ m = 0
               \/ /\ m % 2 = 1
                  /\ \A i \in 1..m :
                        inner[i].sym = (IF i % 2 = 1 THEN "object" ELSE ",")
    IN  IF wellFormed
        THEN [ok |-> TRUE, value |-> [i \in 1..((m + 1) \div 2) |-> inner[2 * i - 1].item]]
        ELSE [ok |-> FALSE, value |-> <<>>]

\* json.dump(data, f, ensure_ascii=False, indent=2) of a list, as the
\* chunks it writes
RECURSIVE DumpRest(_)
DumpRest(value) ==
    IF value = <<>> THEN <<Chunk("\n]")>>
    ELSE <<Chunk(",\n  "), dumps_indented(Head(value))>> \o DumpRest(Tail(value))

JsonDump(value) ==
    IF value = <<>> THEN <<Chunk("[]")>>
    ELSE <<Chunk("[\n  "), dumps_indented(Head(value))>> \o DumpRest(Tail(value))

(* ------------------------------ state --------------------------------- *)
VARIABLES
    TM_API_TOKEN,   \* the environment variable, see TokenEnvs
    COMPACT_OUTPUT, \* the module-level flag
    LOG_EVERY,      \* the module-level cadence of the progress lines
    apiReportsTotal, \* whether the API puts the optional totalCount on pages
    pc,             \* "start", "fetch" (inside fetch_page), "reformat", "done"
    url, params,    \* stream_all: the request of the current page
    data,           \* stream_all: the page fetch_page returned last
    pages, items_total, first_item,
    f,              \* content of the output file
    \* fetch_page's frame; it is kept as it was when an exception left it
    attempt,        \* the attempt counter
    nreq,           \* requests the call has issued
    nfail,          \* requests of the call that failed: session.get raised
                    \* or the status was a retryable one
    sleep_s,        \* the duration last handed to time.sleep
    lastReq,        \* the last request session.get was called with
    served,         \* item lists of the pages the server returned with 200
    stdout, stderr, \* the lines printed, but for the two kinds kept below
    progress,       \* the "[Page p] +n items total=t" lines printed so far
    summary,        \* {} before the "Done." line is printed, then {its fields}
    totals,         \* totalCount values of the pages returned so far
    exit            \* {} while the process runs, then {exit code}

envVars    == <<TM_API_TOKEN, COMPACT_OUTPUT, LOG_EVERY, apiReportsTotal>>
reportVars == <<progress, summary, totals>>
streamVars == <<url, params, data, pages, items_total, first_item, f, served,
                reportVars>>
fetchVars  == <<attempt, nreq, nfail, sleep_s, lastReq>>
outVars    == <<stdout, stderr, exit>>
vars       == <<envVars, pc, streamVars, fetchVars, outVars>>

NoSleep   == <<0, 0>>
NoRequest == [url |-> <<>>, params |-> {}]
EmptyDict == [k \in {} |-> None]

\* TOKEN = os.getenv("TM_API_TOKEN") or "<API key here>"
TOKEN ==
    IF TM_API_TOKEN.set /\ TM_API_TOKEN.val # <<>> THEN TM_API_TOKEN.val
    ELSE DEFAULT_TOKEN

\* the condition of _auth_header under which it exits
AuthRejects(token) == token = <<>> \/ Strip(token) = PLACEHOLDER

InitWith(tokens, cadences, reports) ==
    /\ TM_API_TOKEN \in tokens
    /\ COMPACT_OUTPUT \in BOOLEAN
    /\ LOG_EVERY \in cadences
    /\ apiReportsTotal \in reports
    /\ pc = "start"
    /\ url = <<>> /\ params = {} /\ data = EmptyDict
    /\ pages = 0 /\ items_total = 0 /\ first_item = TRUE
    /\ f = <<>>
    /\ attempt = 0 /\ nreq = 0 /\ nfail = 0
    /\ sleep_s = NoSleep /\ lastReq = NoRequest
    /\ served = <<>>
    /\ stdout = <<>> /\ stderr = <<>> /\ exit = {}
    /\ progress = <<>> /\ summary = {} /\ totals = {}

\* every credential, the default cadence or none, an API without totalCount
Init == InitWith(TokenEnvs, DefaultLogEvery, {FALSE})

\* every cadence and an API that may put totalCount on any page
InitReport == InitWith(ReportTokenEnvs, LogEveryValues, {TRUE})

(* ------------------------------ startup ------------------------------- *)
\* main -> stream_all -> _session -> _auth_header: sys.exit(1)
AuthFail ==
    /\ pc = "start"
    /\ AuthRejects(TOKEN)
    /\ stderr' = Append(stderr, "ERROR: Set TM_API_TOKEN or fill placeholder.")
    /\ exit' = {1}
    /\ pc' = "done"
    /\ UNCHANGED <<envVars, streamVars, fetchVars, stdout>>

\* stream_all up to its first call of fetch_page
BeginStream ==
    /\ pc = "start"
    /\ ~AuthRejects(TOKEN)
    /\ url' = BASE_URL
    /\ params' = {<<"top", PAGE_SIZE>>}
    /\ pages' = 0 /\ items_total' = 0
    /\ stdout' = Append(stdout, "Start:")
    /\ f' = <<Chunk("[\n")>>
    /\ first_item' = TRUE
    /\ attempt' = 0 /\ nreq' = 0 /\ nfail' = 0 /\ sleep_s' = NoSleep
    /\ pc' = "fetch"
    /\ UNCHANGED <<envVars, data, served, lastReq, stderr, exit, reportVars>>

(* ----------------------------- fetch_page ----------------------------- *)
\* Request with the page-size parameter sent on every request
Request_TopOnEveryRequest ==
    /\ pc = "fetch"
    /\ lastReq' = [url |-> url, params |-> {<<"top", PAGE_SIZE>>}]

\* session.get(url, params=params, ...)
Request ==
    /\ pc = "fetch"
    /\ lastReq' = [url |-> url, params |-> params]

\* Propagate without the sys.exit(2) of main's except clause
Propagate_FallsThrough ==
    /\ stderr' = Append(stderr, "Failed:")
    /\ stdout' = Append(stdout, "Wrote:")
    /\ exit' = {0}
    /\ pc' = "done"
    /\ UNCHANGED <<envVars, streamVars>>

\* Propagate with the closing bracket written on the way out
Propagate_ClosesArray ==
    /\ stderr' = Append(stderr, "Failed:")
    /\ exit' = {2}
    /\ pc' = "done"
    /\ f' = f \o <<Chunk("\n]\n")>>
    /\ UNCHANGED <<envVars, url, params, data, pages, items_total, first_item,
                   served, reportVars, stdout>>

\* an exception leaves fetch_page and stream_all (the with block closes the
\* file as it is); main prints it to stderr and exits 2
Propagate ==
    /\ stderr' = Append(stderr, "Failed:")
    /\ exit' = {2}
    /\ pc' = "done"
    /\ UNCHANGED <<envVars, streamVars, stdout>>

\* SleepAndRetry with the query parameters dropped before the retry
SleepAndRetry_DropsParams(s) ==
    /\ sleep_s' = s
    /\ params' = {}
    /\ UNCHANGED <<envVars, pc, url, data, pages, items_total, first_item, f,
                   served, reportVars, outVars>>

\* time.sleep(sleep_s) returns; continue
SleepAndRetry(s) ==
    /\ sleep_s' = s
    /\ UNCHANGED <<envVars, pc, streamVars, outVars>>

\* session.get raises requests.RequestException
\* GetRaises with the except clause restarting the counter ("attempt = 1")
GetRaises_RestartsCounter ==
    /\ Request
    /\ nreq' = nreq + 1 /\ nfail' = nfail + 1
    /\ attempt' = 1
    /\ IF CeilingExceeded(attempt')
       THEN UNCHANGED sleep_s /\ Propagate
       ELSE SleepAndRetry(Backoff(attempt'))

\* session.get raises requests.RequestException
GetRaises ==
    /\ Request
    /\ nreq' = nreq + 1 /\ nfail' = nfail + 1
    /\ attempt' = attempt + 1
    /\ IF CeilingExceeded(attempt')
       THEN UNCHANGED sleep_s /\ Propagate
       ELSE SleepAndRetry(Backoff(attempt'))

\* a response with a status of (429, 500, 502, 503, 504) and these headers
RetryableResponse(status, headers) ==
    /\ Request
    /\ nreq' = nreq + 1 /\ nfail' = nfail + 1
    /\ attempt' = attempt + 1
    /\ IF CeilingExceeded(attempt')
       THEN \* resp.raise_for_status()
            IF RaisesForStatus(status)
            THEN UNCHANGED sleep_s /\ Propagate
            ELSE SleepAndRetry(SleepSecs(headers, attempt'))
       ELSE LET s == SleepSecs(headers, attempt')
            IN  IF SleepRaises(s)
                THEN sleep_s' = s /\ Propagate
                ELSE SleepAndRetry(s)

RespRetryable ==
    \E status \in Statuses \cap RETRYABLE, headers \in HeaderDicts :
        RetryableResponse(status, headers)

\* a response with any other status but 200: resp.raise_for_status(), and
\* where that does not raise the while loop goes round again
OtherResponse(status) ==
    /\ Request
    /\ nreq' = nreq + 1
    /\ UNCHANGED <<attempt, nfail, sleep_s>>
    /\ IF RaisesForStatus(status)
       THEN Propagate
       ELSE /\ nreq - attempt < MaxSpin
            /\ UNCHANGED <<envVars, pc, streamVars, outVars>>

RespOther ==
    \E status \in Statuses \ (RETRYABLE \cup {200}) : OtherResponse(status)

\* status 200, but resp.json() raises on the body
RespBadBody ==
    /\ Request
    /\ nreq' = nreq + 1
    /\ UNCHANGED <<attempt, nfail, sleep_s>>
    /\ Propagate

(* ----------------------------- stream_all ----------------------------- *)
\* EndOfPages as "if next_link is None"
EndOfPages_IsNone(next_link) == next_link = None

\* if not next_link
EndOfPages(next_link) == ~Truthy(next_link)

\* the pages the server may answer the current request with
PageItems(n) == [i \in 1..n |-> <<Len(served) + 1, i>>]

PageDicts ==
    LET withItems == { [k \in {"items"} |-> PageItems(n)] : n \in 0..MaxPageItems }
        bodies    == withItems \cup {EmptyDict}
        links     == IF Len(served) + 1 < MaxPages THEN Links \cup {<<>>} ELSE {<<>>}
        linked    == bodies \cup
            { [k \in DOMAIN b \cup {"nextLink"} |->
                    IF k = "nextLink" THEN l ELSE b[k]] : b \in bodies, l \in links }
    IN  linked \cup
        { [k \in DOMAIN b \cup {"totalCount"} |->
                IF k = "totalCount" THEN t ELSE b[k]] :
            b \in linked, t \in IF apiReportsTotal THEN TotalCounts ELSE {} }

\* CountItems with "=" for "+="
CountItems_Assigns(total, page_items) == Len(page_items)

\* items_total += len(page_items)
CountItems(total, page_items) == total + Len(page_items)

\* pages % LOG_EVERY raises ZeroDivisionError
CadenceRaises(log_every) == log_every = 0

\* if pages % LOG_EVERY == 0 or pages == 1
LogsProgress(p, log_every) == p % log_every = 0 \/ p = 1

\* api_total = data.get("totalCount", 'n/a')
ApiTotal(page) == Get(page, "totalCount", <<"n/a">>)

\* return from stream_all into main: print and fall off the end
ReturnToMain(out) ==
    /\ stdout' = Append(out, "Wrote:")
    /\ exit' = {0}
    /\ pc' = "done"
    /\ UNCHANGED stderr

\* status 200: fetch_page returns resp.json(); one iteration of the while
\* loop of stream_all, and after its break the rest of stream_all up to the
\* reformat step
Resp200 ==
    /\ Request
    /\ \E page \in PageDicts :
        LET page_items == Get(page, "items", <<>>)
            w          == WriteItems([f |-> f, first_item |-> first_item], page_items)
            next_link  == Get(page, "nextLink", None)
        IN  /\ data' = page
            \* fetch_page has returned: its locals are gone, and a next call
            \* starts with attempt = 0
            /\ attempt' = 0 /\ nreq' = 0 /\ nfail' = 0 /\ sleep_s' = NoSleep
            /\ served' = Append(served, page_items)
            /\ pages' = pages + 1
            /\ items_total' = CountItems(items_total, page_items)
            /\ first_item' = w.first_item
            /\ totals' = totals \cup
                    (IF "totalCount" \in DOMAIN page THEN {page["totalCount"]} ELSE {})
            /\ IF CadenceRaises(LOG_EVERY)
               THEN \* the exception leaves stream_all after the page's items
                    \* were written; main prints it to stderr and exits 2
                    /\ f' = w.f
                    /\ stderr' = Append(stderr, "Failed:")
                    /\ exit' = {2}
                    /\ pc' = "done"
                    /\ UNCHANGED <<url, params, progress, summary, stdout>>
               ELSE /\ progress' =
                            IF LogsProgress(pages', LOG_EVERY)
                            THEN Append(progress, [page |-> pages', added |-> Len(page_items),
                                                   total |-> items_total'])
                            ELSE progress
                    /\ IF EndOfPages(next_link)
                       THEN /\ f' = w.f \o <<Chunk("\n]\n")>>
                            /\ summary' = {[pages |-> pages', totalItems |-> items_total',
                                            apiTotal |-> ApiTotal(page)]}
                            /\ UNCHANGED <<url, params>>
                            /\ IF ~COMPACT_OUTPUT
                               THEN /\ stdout' = stdout \o <<"Done.", "Reformatting JSON">>
                                    /\ pc' = "reformat"
                                    /\ UNCHANGED <<stderr, exit>>
                               ELSE ReturnToMain(stdout \o <<"Done.", "Skipping pretty-print">>)
                       ELSE /\ f' = w.f
                            /\ url' = next_link
                            /\ params' = {}
                            /\ pc' = "fetch"
                            /\ UNCHANGED <<outVars, summary>>
    /\ UNCHANGED envVars

(* --------------------------- the reformat step ------------------------ *)
\* ReformatWarns without the except clause: the error leaves stream_all
ReformatWarns_Propagates ==
    /\ stderr' = Append(stderr, "Failed:")
    /\ exit' = {2}
    /\ pc' = "done"
    /\ UNCHANGED <<envVars, url, params, data, pages, items_total, first_item,
                   served, reportVars, fetchVars, stdout>>

\* the reformat step raised: the except clause prints the warning, and
\* stream_all returns
ReformatWarns ==
    /\ ReturnToMain(Append(stdout, "WARNING: could not reformat JSON"))
    /\ UNCHANGED <<envVars, url, params, data, pages, items_total, first_item,
                   served, reportVars, fetchVars>>

\* open(out_path, "r") or json.load(f) raises: an I/O or memory error, or a
\* JSONDecodeError on a malformed file
ReformatLoadFails ==
    /\ pc = "reformat"
    /\ UNCHANGED f
    /\ ReformatWarns

\* json.load succeeded, open(out_path, "w") raises
ReformatOpenFails ==
    /\ pc = "reformat"
    /\ JsonLoad(f).ok
    /\ UNCHANGED f
    /\ ReformatWarns

\* json.load succeeded and open(out_path, "w") truncated the file; json.dump
\* raises after it wrote some of its chunks
ReformatDumpFails ==
    /\ pc = "reformat"
    /\ JsonLoad(f).ok
    /\ LET text == JsonDump(JsonLoad(f).value)
       IN  \E k \in 0..(Len(text) - 1) : f' = SubSeq(text, 1, k)
    /\ ReformatWarns

\* the file is loaded and rewritten with indentation
ReformatDone ==
    /\ pc = "reformat"
    /\ JsonLoad(f).ok
    /\ f' = JsonDump(JsonLoad(f).value)
    /\ ReturnToMain(stdout)
    /\ UNCHANGED <<envVars, url, params, data, pages, items_total, first_item,
                   served, reportVars, fetchVars>>

(* ---------------------------------------------------------------------- *)
Next ==
    \/ AuthFail
    \/ BeginStream
    \/ GetRaises
    \/ RespRetryable
    \/ RespOther
    \/ RespBadBody
    \/ Resp200
    \/ ReformatLoadFails
    \/ ReformatOpenFails
    \/ ReformatDumpFails
    \/ ReformatDone

Spec == Init /\ [][Next]_vars

\* the runs whose progress and summary lines are examined
SpecReport == InitReport /\ [][Next]_vars

(* ====================================================================== *)
(*                               Claims                                   *)
(* ====================================================================== *)
\* the items of the pages served so far, page after page
RECURSIVE Flatten(_)
Flatten(ss) == IF ss = <<>> THEN <<>> ELSE Head(ss) \o Flatten(Tail(ss))

\* items joined by the ",\n" separator, independent of how the loop writes
RECURSIVE Joined(_)
Joined(items) ==
    IF items = <<>> THEN <<>>
    ELSE IF Len(items) = 1 THEN <<dumps_bytes(items[1])>>
    ELSE <<dumps_bytes(Head(items)), Chunk(",\n")>> \o Joined(Tail(items))

CountSym(text, sym) ==
    LET s == Lex(text) IN Cardinality({i \in 1..Len(s) : s[i].sym = sym})

Succeeded == pc = "done" /\ exit = {0}
Failed    == pc = "done" /\ exit = {2}
Warned    == \E i \in 1..Len(stdout) : stdout[i] = "WARNING: could not reformat JSON"
\* the streaming phase is over and the file is as that phase left it
StreamedFile == pc = "reformat" \/ (Succeeded /\ COMPACT_OUTPUT)

\* the credential is missing, empty or the placeholder
CredentialMissing ==
    \/ ~TM_API_TOKEN.set
    \/ TM_API_TOKEN.val = <<>>
    \/ Strip(TM_API_TOKEN.val) = PLACEHOLDER

\* C1: with the credential missing (unset), empty or a placeholder, the run
\* ends at once with a diagnostic on stderr and exit code 1, and no HTTP
\* request is ever issued.
C1_MissingCredentialExits ==
    CredentialMissing =>
        /\ lastReq = NoRequest
        /\ pc \in {"start", "done"}
        /\ pc = "done" =>
            /\ exit = {1}
            /\ stderr = <<"ERROR: Set TM_API_TOKEN or fill placeholder.">>

\* C2: once every page was fetched, the top-level array of the output file
\* holds exactly the items of the pages served, in page order and within a
\* page in the page's order: as streamed, and after a reformat that did not
\* fail.
C2_AllItemsInOrder ==
    (pc = "reformat" \/ (Succeeded /\ ~Warned)) =>
        /\ JsonLoad(f).ok
        /\ JsonLoad(f).value = Flatten(served)
        /\ Len(JsonLoad(f).value) = items_total

C2_Witness ==
    /\ Succeeded /\ ~Warned
    /\ Len(served) >= 3
    /\ Len(served[1]) = 2 /\ Len(served[2]) = 1 /\ Len(served[3]) = 2
    /\ lastReq.url \in Links

\* the file is one array: one "[" first, one "]" last, and between them the
\* items with exactly one "," between neighbours
WellFormedArray(text, nitems) ==
    /\ JsonLoad(text).ok
    /\ Len(JsonLoad(text).value) = nitems
    /\ CountSym(text, "[") = 1
    /\ CountSym(text, "]") = 1
    /\ CountSym(text, "object") = nitems
    /\ CountSym(text, ",") = (IF nitems = 0 THEN 0 ELSE nitems - 1)

\* C3 as stated: whenever stream_all completes without an error the file is
\* one well-formed array, and with zero items it is exactly "[\n" "\n]\n".
C3_Original ==
    (Succeeded /\ ~Warned) =>
        /\ WellFormedArray(f, items_total)
        /\ items_total = 0 => f = <<Chunk("[\n"), Chunk("\n]\n")>>

\* C3 (amended): whenever stream_all completes without an error the file
\* is one well-formed array (one opening bracket, the items with exactly
\* one separator between neighbours and none leading or trailing, one
\* closing bracket) wherever the empty pages are.  As the streaming phase
\* leaves it, it is the bracket chunk, the items joined by ",\n", and the
\* closing chunk, so with zero items exactly "[\n" "\n]\n"; after a
\* reformat (COMPACT_OUTPUT false) the zero-item file is "[]" instead.
C3_ArrayWellFormed ==
    /\ StreamedFile =>
        /\ f = <<Chunk("[\n")>> \o Joined(Flatten(served)) \o <<Chunk("\n]\n")>>
        /\ WellFormedArray(f, items_total)
        /\ items_total = 0 => f = <<Chunk("[\n"), Chunk("\n]\n")>>
    /\ (Succeeded /\ ~Warned) =>
        /\ WellFormedArray(f, items_total)
        /\ (items_total = 0 /\ ~COMPACT_OUTPUT) => f = <<Chunk("[]")>>

C3_Witness ==
    /\ Succeeded /\ ~Warned /\ COMPACT_OUTPUT
    /\ Len(served) = 3
    /\ served[1] = <<>> /\ Len(served[2]) = 2 /\ served[3] = <<>>

\* a page was returned to the loop in this step
PageReceived == pc = "fetch" /\ pages' = pages + 1
\* the loop was left by its break in this step: the closing bracket is
\* written and no exception is on its way
LoopBroke ==
    /\ pc = "fetch" /\ pc' # "fetch" /\ exit' # {2}
    /\ Len(f') > Len(f) /\ f'[Len(f')] = Chunk("\n]\n")

\* C4 as stated: the loop ends exactly in the steps that receive a page
\* without the nextLink key; a page that carries nextLink never ends it
\* (steps in which an exception ends the run are left aside).
C4_Original ==
    [][(pc = "fetch" /\ exit' # {2}) =>
         (LoopBroke <=> (PageReceived /\ "nextLink" \notin DOMAIN data'))]_vars

\* C4 (amended): the loop ends normally exactly in the steps that receive a
\* page whose nextLink is absent or empty (falsy) and raise no exception; a
\* page with a non-empty nextLink never ends it normally but, unless an
\* exception is raised, makes that link the next URL; the only other way
\* out of the loop is an exception, which ends the run with exit code 2.
C4_EndsOnFalsyNextLink ==
    [][pc = "fetch" =>
         /\ LoopBroke <=>
              (PageReceived /\ exit' # {2} /\ ~Truthy(Get(data', "nextLink", None)))
         /\ (PageReceived /\ exit' # {2} /\ Truthy(Get(data', "nextLink", None))) =>
                (pc' = "fetch" /\ url' = data'["nextLink"])
         /\ (pc' # "fetch" /\ ~LoopBroke) => exit' = {2}]_vars

C4_Witness ==
    /\ pc \in {"reformat", "done"} /\ exit # {2}
    /\ pages = 2
    /\ "nextLink" \in DOMAIN data /\ data["nextLink"] = <<>>

\* C5 as stated: once MAX_RETRIES attempts of a call have failed, the call
\* has raised.
C5_Original == attempt >= MAX_RETRIES => Failed

\* C5 (amended): once MAX_RETRIES + 1 attempts of a call have failed (the
\* first request and MAX_RETRIES retries) the call has raised, and no
\* further attempt is made.
C5_RaisesAfterCeiling ==
    /\ attempt <= MAX_RETRIES + 1
    /\ attempt = MAX_RETRIES + 1 => (Failed /\ nreq >= attempt /\ ~ENABLED Next)

C5_Witness == Failed /\ attempt = MAX_RETRIES + 1 /\ nreq = MAX_RETRIES + 1

\* C6: a response whose status is neither 200 nor retryable makes
\* fetch_page raise at once: no sleep, no further request.
C6_OtherStatusRaisesAtOnce ==
    [][\A status \in Statuses \ (RETRYABLE \cup {200}) :
         OtherResponse(status) => (pc' = "done" /\ exit' = {2} /\ sleep_s' = sleep_s)]_vars

\* the sleep C7 states
ClaimedSleep(headers, k) ==
    IF "Retry-After" \in DOMAIN headers /\ Float(headers["Retry-After"]).ok
    THEN Float(headers["Retry-After"]).val
    ELSE Backoff(k)

\* C7: on a retryable status within the ceiling fetch_page sleeps for the
\* Retry-After value when that header is present and numeric, for
\* BACKOFF_BASE ** attempt otherwise, and then retries the same request.
C7_RetryAfterOrBackoff ==
    [][\A status \in RETRYABLE, headers \in HeaderDicts :
         (RetryableResponse(status, headers) /\ attempt' <= MAX_RETRIES) =>
            /\ sleep_s' = ClaimedSleep(headers, attempt')
            /\ pc' = "fetch"
            /\ url' = url /\ params' = params]_vars

WroteLine == \E i \in 1..Len(stdout) : stdout[i] = "Wrote:"

\* C8: a run ends in exactly one of three ways: streaming completed, the
\* "Wrote:" line and exit 0; a failure left the streaming, a diagnostic on
\* stderr and exit 2; the credential check failed, exit 1.  "Wrote:" is
\* printed in the first only, and nothing else ends a run.
C8_ThreeOutcomes ==
    /\ pc # "done" => (exit = {} /\ ~WroteLine /\ stderr = <<>> /\ ENABLED Next)
    /\ pc = "done" =>
        /\ ~ENABLED Next
        /\ \/ /\ exit = {0}
              /\ stdout[Len(stdout)] = "Wrote:"
              /\ stderr = <<>>
              /\ pages >= 1 /\ CountSym(f, "[") <= 1
              /\ ~Truthy(Get(data, "nextLink", None))
           \/ /\ exit = {2}
              /\ stderr = <<"Failed:">>
              /\ ~WroteLine
              /\ ~AuthRejects(TOKEN)
           \/ /\ exit = {1}
              /\ stderr = <<"ERROR: Set TM_API_TOKEN or fill placeholder.">>
              /\ ~WroteLine
              /\ AuthRejects(TOKEN)
              /\ f = <<>> /\ lastReq = NoRequest

C8_Witness == Failed /\ pages = 1 /\ stderr = <<"Failed:">> /\ ~WroteLine

\* C9: a reformat step that fails, in loading or in rewriting, leaves the
\* file as the streaming phase wrote it.
C9_FailedReformatKeepsFile ==
    [][(pc = "reformat" /\ Warned') => f' = f]_vars

\* C10: when fetch_page raises on page j the exception leaves stream_all
\* with no cleanup: no further request, no closing bracket, no reformat; the
\* file is the opening bracket and the items of pages 1..j-1.
C10_FailureLeavesPartialFile ==
    Failed =>
        /\ pages = Len(served)
        /\ f = <<Chunk("[\n")>> \o Joined(Flatten(served))
        /\ CountSym(f, "]") = 0
        /\ ~JsonLoad(f).ok
        /\ stdout = <<"Start:">>
        /\ lastReq = [url |-> url, params |-> params]
        /\ ~ENABLED Next

C10_Witness ==
    /\ Failed
    /\ pages = 2 /\ Len(served[1]) = 2 /\ Len(served[2]) = 1
    /\ nreq >= 2

\* the request the claim C11 names for the page being fetched: the base URL
\* with top=PAGE_SIZE for the first page, the nextLink of the page fetched
\* just before and no query parameter for a later one
NamedRequest ==
    IF pages = 0
    THEN [url |-> BASE_URL, params |-> {<<"top", PAGE_SIZE>>}]
    ELSE [url |-> data["nextLink"], params |-> {}]

\* C11: every request for the first page goes to the base URL with
\* top=PAGE_SIZE, every request for a later page goes to the nextLink of the
\* page fetched just before it with no query parameter, and a retry repeats
\* the URL and the parameters of the request before it.
C11_RequestTargets ==
    [][pc = "fetch" =>
         /\ lastReq' = NamedRequest
         /\ nreq > 0 => lastReq' = lastReq]_vars

C11_Witness ==
    /\ pc = "fetch"
    /\ pages = 2 /\ nreq >= 2 /\ attempt >= 2
    /\ lastReq = [url |-> data["nextLink"], params |-> {}]
    /\ lastReq.url \in Links

\* C12: a reformat step that raises, in loading or in rewriting, never
\* fails the run: the warning is printed on standard output, stream_all
\* returns the path (main prints its "Wrote:" line) and the exit code is 0.
C12_ReformatFailureExitsZero ==
    [][(pc = "reformat" /\ ~ReformatDone) =>
         /\ stdout' = stdout \o <<"WARNING: could not reformat JSON", "Wrote:">>
         /\ stderr' = <<>>
         /\ exit' = {0}
         /\ pc' = "done"]_vars

C12_Witness ==
    /\ Succeeded /\ Warned
    /\ stdout[Len(stdout)] = "Wrote:"
    /\ pages = 2 /\ items_total = 3
    /\ ~JsonLoad(f).ok

\* C13: a fetch_page call issues at most MAX_RETRIES + 1 requests before it
\* returns a page or raises, and between any two requests of a call there
\* is a sleep: while a call is waiting to issue a further request, each of
\* its requests so far was followed by a sleep.
C13_BoundedRequestsWithSleeps ==
    /\ nreq <= MAX_RETRIES + 1
    /\ (pc = "fetch" /\ nreq > 0) => (sleep_s # NoSleep /\ attempt = nreq)

\* a Retry-After header that is present and numeric
RetryAfterApplies(headers) ==
    "Retry-After" \in DOMAIN headers /\ Float(headers["Retry-After"]).ok

\* response headers whose Retry-After is absent or not numeric
NoRetryAfterHeaders == { headers \in HeaderDicts : ~RetryAfterApplies(headers) }

\* the call fails for the k-th time in this step and no Retry-After applies
FailsWithoutRetryAfter ==
    \/ GetRaises
    \/ \E status \in Statuses \cap RETRYABLE, headers \in NoRetryAfterHeaders :
          RetryableResponse(status, headers)

\* C14: network exceptions and retryable statuses share one attempt counter
\* in a call and the counter starts at zero for each page: the counter is
\* the number of failures of the call of either kind, the k-th failure of a
\* call backs off for BACKOFF_BASE ** k when no Retry-After applies, every
\* call is retried after each of its first MAX_RETRIES failures, and a page
\* returned leaves the counter at zero for the next call.
C14_SharedCounterPerPage ==
    [][/\ attempt' = nfail'
       /\ (nfail' = nfail + 1 /\ nfail' <= MAX_RETRIES /\ FailsWithoutRetryAfter) =>
             /\ sleep_s' = <<IntPow(3, nfail'), IntPow(2, nfail')>>
             /\ pc' = "fetch"
       /\ (pc' = "done" /\ exit' = {2} /\ nfail' = nfail + 1 /\ sleep_s' = sleep_s) =>
             nfail' = MAX_RETRIES + 1
       /\ (PageReceived /\ pc' = "fetch") => (attempt' = 0 /\ nfail' = 0)]_vars

C14_Witness ==
    /\ pc = "fetch" /\ pages = 2
    /\ nfail = MAX_RETRIES /\ attempt = MAX_RETRIES
    /\ sleep_s = <<243, 32>>

\* C15: a fetch attempt that does not return a page (it fails, is retried,
\* or raises) changes nothing of the Stream Writer's state: the file, the
\* page counter, the item counter, the URL and the parameters stay as they
\* were when the fetch started, until a page is returned with status 200.
C15_FailedAttemptKeepsWriterState ==
    [][(pc = "fetch" /\ nreq' = nreq + 1) =>
         /\ f' = f
         /\ pages' = pages /\ items_total' = items_total
         /\ url' = url /\ params' = params
         /\ first_item' = first_item]_vars

C15_Witness ==
    /\ pc = "fetch" /\ pages = 1 /\ items_total = 2
    /\ nreq = 3 /\ nfail = 2
    /\ url \in Links /\ params = {}
    /\ f = <<Chunk("[\n")>> \o Joined(Flatten(served))

\* C16: at the end of every loop iteration the page counter is the number
\* of pages fetched successfully and the item counter is the number of
\* items written to the file so far; the page count and the item count of
\* the final summary are the number of pages fetched and the number of
\* elements of the output array (as the streaming phase leaves the file,
\* and after a reformat that did not fail).
C16_CountersMatchPagesAndItems ==
    /\ pages = Len(served)
    /\ items_total = Len(Flatten(served))
    /\ (pc = "fetch" \/ Failed) =>
          f = <<Chunk("[\n")>> \o Joined(SubSeq(Flatten(served), 1, items_total))
    /\ \A s \in summary :
          /\ s.pages = Len(served)
          /\ s.totalItems = Len(Flatten(served))
          /\ (StreamedFile \/ (Succeeded /\ ~Warned)) =>
                (JsonLoad(f).ok /\ Len(JsonLoad(f).value) = s.totalItems)

C16_Witness ==
    /\ Succeeded /\ ~Warned
    /\ summary = {[pages |-> 3, totalItems |-> 4, apiTotal |-> <<"n/a">>]}
    /\ Len(JsonLoad(f).value) = 4

\* C17: when pagination ends, the final summary reports the API-reported
\* total whenever a page of the run supplied a totalCount, whichever page
\* it was, and reports 'n/a' only when no page of the run supplied one.
C17_SummaryReportsApiTotal ==
    \A s \in summary :
        /\ totals # {} => s.apiTotal \in totals
        /\ s.apiTotal = <<"n/a">> => totals = {}

\* p is a multiple of n
IsMultiple(p, n) == \E k \in 0..p : p = k * n

\* the progress line of the page received in this step is printed
ProgressLinePrinted ==
    /\ Len(progress') = Len(progress) + 1
    /\ progress'[Len(progress')].page = pages'

\* C18: for every configured cadence N (LOG_EVERY) a progress line is
\* printed after page p exactly when p = 1 or p is a multiple of N, and
\* evaluating the cadence never keeps the page's items from being followed
\* by the next fetch or by the closing bracket.
C18_ProgressCadence ==
    [][PageReceived =>
         /\ ProgressLinePrinted <=> (pages' = 1 \/ IsMultiple(pages', LOG_EVERY))
         /\ ~ProgressLinePrinted => progress' = progress
         /\ pc' = "fetch" \/ LoopBroke]_vars

====
